---- MODULE Spec2Model ----
(***************************************************************************)
(* Model of app.py: a Streamlit script that sends an uploaded image to one *)
(* of two transcription backends, maps the returned Markdown onto document *)
(* elements (create_structured_docx), saves the document to a fixed path   *)
(* and offers it for download.                                             *)
(*                                                                         *)
(* Text is a sequence of one-character strings.  Literal texts of the      *)
(* script are kept as sequences of tokens.  Python values that may be None *)
(* are wrapped: PyNone, PyStr(s), PyDoc(body).                             *)
(***************************************************************************)
EXTENDS Integers, Sequences, FiniteSets, TLC

\* ------------------------------------------------------------------------
\* Bounds
\* ------------------------------------------------------------------------
MaxFrags == 4

MaxRuns == 2

\* ------------------------------------------------------------------------
\* Python values
\* ------------------------------------------------------------------------
PyNone == [type |-> "NoneType"]

PyStr(s) == [type |-> "str", val |-> s]

PyDoc(body) == [type |-> "Document", val |-> body]

\* `doc is not None`
IsNone(v) == v.type = "NoneType"

\* truthiness of a string or None: `if ocr_result:`
TruthyNotNone(v) == v.type # "NoneType"

Truthy(v) == v.type = "str" /\ v.val # <<>>

\* ------------------------------------------------------------------------
\* String helpers (str.split, str.strip, str.startswith, slicing, upper)
\* ------------------------------------------------------------------------
Whitespace == {" ", "\t", "\n"}

RECURSIVE split(_, _)
split(s, sep) ==
    IF \A i \in 1..Len(s) : s[i] # sep
    THEN <<s>>
    ELSE LET i == CHOOSE k \in 1..Len(s) :
                     s[k] = sep /\ \A j \in 1..(k-1) : s[j] # sep
         IN  <<SubSeq(s, 1, i-1)>> \o split(SubSeq(s, i+1, Len(s)), sep)

RECURSIVE lstrip(_)
lstrip(s) ==
    IF s # <<>> /\ s[1] \in Whitespace THEN lstrip(Tail(s)) ELSE s

RECURSIVE rstrip(_)
rstrip(s) ==
    IF s # <<>> /\ s[Len(s)] \in Whitespace
    THEN rstrip(SubSeq(s, 1, Len(s)-1)) ELSE s

strip(s) == rstrip(lstrip(s))

startswith(s, p) == Len(s) >= Len(p) /\ SubSeq(s, 1, Len(p)) = p

\* line[n:]
SliceFrom(s, n) == SubSeq(s, n+1, Len(s))

upper(e) ==
    CASE e = "groq"   -> "GROQ"
      [] e = "gemini" -> "GEMINI"
      [] OTHER        -> "OTHER"

\* "_" * 50
Underscores == [i \in 1..50 |-> "_"]

\* ------------------------------------------------------------------------
\* Document elements (python-docx body items)
\* ------------------------------------------------------------------------
add_heading(text, level) ==
    [kind |-> "heading", level |-> level, text |-> text,
     style |-> "Heading", alignment |-> "LEFT"]

add_paragraph(text, style) ==
    [kind |-> "paragraph", level |-> 0, text |-> text,
     style |-> style, alignment |-> "LEFT"]

add_picture(path) ==
    [kind |-> "picture", level |-> 0, text |-> <<path>>,
     style |-> "width=Inches(6)", alignment |-> "LEFT"]

Centered(el) == [el EXCEPT !.alignment = "CENTER"]

\* ------------------------------------------------------------------------
\* create_structured_docx
\* ------------------------------------------------------------------------
\* lines 232-236: title (centered), engine line, first separator
HeaderNoMeta(engine_type) ==
    << Centered(add_heading(<<"Chemistry Notes - OCR Extraction">>, 1)),
       add_paragraph(Underscores, "Normal") >>

Header(engine_type) ==
    << Centered(add_heading(<<"Chemistry Notes - OCR Extraction">>, 1)),
       add_paragraph(<<"OCR Engine: ", upper(engine_type)>>, "Normal"),
       add_paragraph(Underscores, "Normal") >>

\* lines 248-259: the element a stripped, non-empty line is turned into
MapLineLoose(line) ==
    IF startswith(line, <<"#", "#", "#">>)
    THEN add_heading(SliceFrom(line, 4), 3)
    ELSE IF startswith(line, <<"#", "#">>)
    THEN add_heading(SliceFrom(line, 3), 2)
    ELSE IF startswith(line, <<"#">>)
    THEN add_heading(SliceFrom(line, 2), 1)
    ELSE IF startswith(line, <<"-">>) \/ startswith(line, <<"*">>)
    THEN add_paragraph(SliceFrom(line, 2), "List Bullet")
    ELSE IF startswith(line, <<"[", "D", "I", "A", "G", "R", "A", "M">>)
    THEN add_paragraph(line, "Intense Quote")
    ELSE add_paragraph(line, "Normal")

MapLine(line) ==
    IF startswith(line, <<"#", "#", "#", " ">>)
    THEN add_heading(SliceFrom(line, 4), 3)
    ELSE IF startswith(line, <<"#", "#", " ">>)
    THEN add_heading(SliceFrom(line, 3), 2)
    ELSE IF startswith(line, <<"#", " ">>)
    THEN add_heading(SliceFrom(line, 2), 1)
    ELSE IF startswith(line, <<"-", " ">>) \/ startswith(line, <<"*", " ">>)
    THEN add_paragraph(SliceFrom(line, 2), "List Bullet")
    ELSE IF startswith(line, <<"[", "D", "I", "A", "G", "R", "A", "M">>)
    THEN add_paragraph(line, "Intense Quote")
    ELSE add_paragraph(line, "Normal")

\* lines 242-259: the loop over the lines; a blank line is skipped
RECURSIVE MapLinesBreak(_)
MapLinesBreak(lines) ==
    IF lines = <<>> THEN <<>>
    ELSE LET line == strip(Head(lines))
         IN  IF line = <<>>
             THEN <<>>
             ELSE <<MapLine(line)>> \o MapLinesBreak(Tail(lines))

RECURSIVE MapLines(_)
MapLines(lines) ==
    IF lines = <<>> THEN <<>>
    ELSE LET line == strip(Head(lines))
         IN  IF line = <<>>
             THEN MapLines(Tail(lines))
             ELSE <<MapLine(line)>> \o MapLines(Tail(lines))

\* lines 238-259: the mapped content blocks
Blocks(ocr_result, engine_type) ==
    IF engine_type \in {"groq", "gemini"} /\ Truthy(ocr_result)
    THEN MapLines(split(ocr_result.val, "\n"))
    ELSE <<>>

\* lines 262-266: empty paragraph, second separator, secondary heading
Footer ==
    << add_paragraph(<<>>, "Normal"),
       add_paragraph(Underscores, "Normal"),
       add_heading(<<"Original Image (Reference)">>, 2) >>

\* lines 267-270: embed the image, or the placeholder when embedding raises.
\* embed is the outcome of doc.add_picture: "ok", "raise" (nothing added), or
\* "raise_after_paragraph" (python-docx appends the paragraph that is to hold
\* the picture before it reads the image file, and leaves it when that fails).
EmbedOutcomes == {"ok", "raise", "raise_after_paragraph"}

Placeholder == add_paragraph(<<"[Could not embed original image]">>, "Normal")

Residue(embed) ==
    IF embed = "raise_after_paragraph"
    THEN <<add_paragraph(<<>>, "Normal")>> ELSE <<>>

EmbedImageSilent(body, image_path, embed) ==
    IF embed = "ok"
    THEN Append(body, add_picture(image_path))
    ELSE body \o Residue(embed)

EmbedImage(body, image_path, embed) ==
    IF embed = "ok"
    THEN Append(body, add_picture(image_path))
    ELSE Append(body \o Residue(embed), Placeholder)

create_structured_docx(ocr_result, image_path, embed, engine_type) ==
    PyDoc(EmbedImage(Header(engine_type)
                       \o Blocks(ocr_result, engine_type)
                       \o Footer,
                     image_path, embed))

\* ------------------------------------------------------------------------
\* State
\* ------------------------------------------------------------------------
Sessions == {"A", "B"}

VARIABLES
    \* process-wide
    secrets,        \* st.secrets: function with domain \subseteq {"GROQ_API_KEY"}
    groq_cache,     \* st.cache_resource store of load_groq_client
    gemini_cache,   \* st.cache_resource store of load_gemini
    genai_config,   \* key set by genai.configure (module-global)
    files,          \* working directory: file name -> document saved there
    tmpfiles,       \* temporary files that exist
    last_save,      \* history: the most recent doc.save, by any session
    \* per session (one script run at a time per session)
    pc, runs, ocr_engine, groq_api_key, gemini_api_key, input_path,
    ocr_result, doc, ui, calls, client_key, raised, crashed,
    saved, download, read_after,
    \* create_structured_docx called directly
    call, ret

procvars == <<secrets, groq_cache, gemini_cache, genai_config, files,
              tmpfiles, last_save>>

sessvars == <<pc, runs, ocr_engine, groq_api_key, gemini_api_key, input_path,
              ocr_result, doc, ui, calls, client_key, raised, crashed,
              saved, download, read_after>>

fnvars == <<call, ret>>

vars == <<procvars, sessvars, fnvars>>

\* ------------------------------------------------------------------------
\* Inputs
\* ------------------------------------------------------------------------
GROQ == "Groq (Llama 4 Maverick)"

GEMINI == "Gemini AI (Best Quality)"

Engines == {GROQ, GEMINI}

K1 == PyStr(<<"K1">>)

K2 == PyStr(<<"K2">>)

Empty == PyStr(<<>>)

\* what the password text_input can hold
KeyInputs == {Empty, K1, K2}

\* pieces the Markdown texts are built from
Fragments ==
    { <<"#">>, <<"#", " ">>, <<"-", " ">>, <<"*", " ">>,
      <<"[", "D", "I", "A", "G", "R", "A", "M">>,
      <<"a">>, <<" ">>, <<"\n">> }

RECURSIVE Texts(_)
Texts(n) ==
    IF n = 0 THEN {<<>>}
    ELSE LET T == Texts(n-1) IN T \cup {t \o f : t \in T, f \in Fragments}

\* texts a backend returns in the application runs
Md1 == <<"#", " ", "a", "\n", "\n", "-", " ", "a">>

Contents == {PyNone, Empty, PyStr(Md1)}

\* the step of a transcription function at which an error is raised
Faults == {"load", "read_image", "request", "response"}

NoSecrets == [k \in {} |-> PyNone]

\* ------------------------------------------------------------------------
\* Cached client constructors (st.cache_resource)
\* ------------------------------------------------------------------------
\* st.cache_resource hashes the arguments whose name has no leading
\* underscore: load_groq_client(api_key) is keyed by api_key,
\* load_gemini(_api_key) by nothing.
CacheKeyGroq(api_key) == <<api_key>>

CacheKeyGemini(api_key) == <<>>

Store(cache, k, v) ==
    [x \in DOMAIN cache \cup {k} |-> IF x = k THEN v ELSE cache[x]]

\* Groq(api_key=api_key)
Groq(api_key) == [api_key |-> api_key]

\* lines 80-83
load_groq_client(cache, api_key) ==
    LET k == CacheKeyGroq(api_key)
    IN  IF k \in DOMAIN cache
        THEN [client |-> cache[k], cache |-> cache]
        ELSE [client |-> Groq(api_key),
              cache  |-> Store(cache, k, Groq(api_key))]

\* lines 85-89: on a miss genai.configure sets the module-global key; the
\* model object holds no key of its own and uses the configured one
load_gemini(cache, config, api_key) ==
    LET k == CacheKeyGemini(api_key)
    IN  IF k \in DOMAIN cache
        THEN [client |-> cache[k], cache |-> cache, config |-> config]
        ELSE [client |-> "gemini-1.5-flash",
              cache  |-> Store(cache, k, "gemini-1.5-flash"),
              config |-> api_key]

\* ------------------------------------------------------------------------
\* Transcription functions: the try / except around the backend call
\* ------------------------------------------------------------------------
\* lines 176-178, 223-225: except Exception -> st.error(...), return None
ExceptRequestOnly(e) ==
    IF e = "request"
    THEN [raises |-> FALSE, value |-> PyNone, reported |-> TRUE]
    ELSE [raises |-> TRUE, value |-> PyNone, reported |-> FALSE]

ExceptException(e) == [raises |-> FALSE, value |-> PyNone, reported |-> TRUE]

\* lines 98-178, 203-225: fault is "none" or the step that raised
TryBackend(fault, content) ==
    IF fault = "none"
    THEN [raises |-> FALSE, value |-> content, reported |-> FALSE]
    ELSE ExceptException(fault)

\* lines 293, 308: the branch of the main flow
SelectedBackend(engine) == IF engine = GROQ THEN "groq" ELSE "gemini"

\* the key the main flow tests and passes (lines 294-296, 309-311)
SelectedKey(s) ==
    IF SelectedBackend(ocr_engine[s]) = "groq"
    THEN groq_api_key[s] ELSE gemini_api_key[s]

\* lines 294, 309: `if groq_api_key:` / `if gemini_api_key:`
KeyNotNone(k) == ~IsNone(k)

KeyPresent(k) == k.type = "str" /\ k.val # <<>>

\* line 325
doc_path_per_session(s) == s

doc_path(s) == "chemistry_notes_ocr.docx"

\* ------------------------------------------------------------------------
\* Initial state: the process has started, no script run yet
\* ------------------------------------------------------------------------
NoPath == <<>>

EmptyStore == [x \in {} |-> PyNone]

SessInit ==
    /\ pc = [s \in Sessions |-> "idle"]
    /\ runs = [s \in Sessions |-> 0]
    /\ ocr_engine = [s \in Sessions |-> GROQ]
    /\ groq_api_key = [s \in Sessions |-> PyNone]
    /\ gemini_api_key = [s \in Sessions |-> PyNone]
    /\ input_path = [s \in Sessions |-> NoPath]
    /\ ocr_result = [s \in Sessions |-> PyNone]
    /\ doc = [s \in Sessions |-> PyNone]
    /\ ui = [s \in Sessions |-> {}]
    /\ calls = [s \in Sessions |-> <<>>]
    /\ client_key = [s \in Sessions |-> PyNone]
    /\ raised = [s \in Sessions |-> FALSE]
    /\ crashed = [s \in Sessions |-> FALSE]
    /\ saved = [s \in Sessions |-> FALSE]
    /\ download = [s \in Sessions |-> PyNone]
    /\ read_after = [s \in Sessions |-> PyNone]

ProcInit ==
    /\ groq_cache = EmptyStore
    /\ gemini_cache = EmptyStore
    /\ genai_config = PyNone
    /\ files = EmptyStore
    /\ tmpfiles = {}
    /\ last_save = PyNone

Init ==
    /\ secrets \in {NoSecrets, [k \in {"GROQ_API_KEY"} |-> K1]}
    /\ ProcInit
    /\ SessInit
    /\ call = PyNone
    /\ ret = PyNone

\* ------------------------------------------------------------------------
\* One script run of a session, top to bottom
\* ------------------------------------------------------------------------
TotalRuns == runs["A"] + runs["B"]

\* lines 39-76: sidebar; engine radio, key selection, sidebar warning
Start(s) ==
    /\ pc[s] \in {"idle", "done"}
    /\ TotalRuns < MaxRuns
    /\ \E e \in Engines, typed \in KeyInputs :
         LET gem == IF e = GEMINI THEN typed ELSE PyNone
             grq == IF e = GROQ
                    THEN IF "GROQ_API_KEY" \in DOMAIN secrets
                         THEN secrets["GROQ_API_KEY"] ELSE typed
                    ELSE PyNone
         IN  /\ ocr_engine' = [ocr_engine EXCEPT ![s] = e]
             /\ gemini_api_key' = [gemini_api_key EXCEPT ![s] = gem]
             /\ groq_api_key' = [groq_api_key EXCEPT ![s] = grq]
             /\ ui' = [ui EXCEPT ![s] =
                         IF (e = GEMINI /\ ~Truthy(gem))
                            \/ (e = GROQ /\ ~Truthy(grq))
                         THEN {"sidebar_warning"} ELSE {}]
    /\ runs' = [runs EXCEPT ![s] = @ + 1]
    /\ pc' = [pc EXCEPT ![s] = "uploader"]
    /\ input_path' = [input_path EXCEPT ![s] = NoPath]
    /\ ocr_result' = [ocr_result EXCEPT ![s] = PyNone]
    /\ doc' = [doc EXCEPT ![s] = PyNone]
    /\ calls' = [calls EXCEPT ![s] = <<>>]
    /\ client_key' = [client_key EXCEPT ![s] = PyNone]
    /\ raised' = [raised EXCEPT ![s] = FALSE]
    /\ crashed' = [crashed EXCEPT ![s] = FALSE]
    /\ saved' = [saved EXCEPT ![s] = FALSE]
    /\ download' = [download EXCEPT ![s] = PyNone]
    /\ read_after' = [read_after EXCEPT ![s] = PyNone]
    /\ UNCHANGED <<procvars, fnvars>>

\* lines 276-278: nothing uploaded, the script ends after the sidebar tips
NoUpload(s) ==
    /\ pc[s] = "uploader"
    /\ pc' = [pc EXCEPT ![s] = "done"]
    /\ UNCHANGED <<procvars, fnvars, runs, ocr_engine, groq_api_key,
                   gemini_api_key, input_path, ocr_result, doc, ui, calls,
                   client_key, raised, crashed, saved, download,
                   read_after>>

\* lines 278-288: the upload is written to a fresh temporary file
Intake(s) ==
    /\ pc[s] = "uploader"
    /\ input_path' = [input_path EXCEPT ![s] = <<s, runs[s]>>]
    /\ tmpfiles' = tmpfiles \cup {<<s, runs[s]>>}
    /\ pc' = [pc EXCEPT ![s] = "main"]
    /\ UNCHANGED <<secrets, groq_cache, gemini_cache, genai_config, files,
                   last_save, fnvars, runs, ocr_engine, groq_api_key,
                   gemini_api_key, ocr_result, doc, ui, calls, client_key,
                   raised, crashed, saved, download, read_after>>

\* lines 304-306, 319-321: key missing -> warning, doc = None
MissingKey(s) ==
    /\ pc[s] = "main"
    /\ ~KeyPresent(SelectedKey(s))
    /\ ui' = [ui EXCEPT ![s] = @ \cup {"warning_key"}]
    /\ doc' = [doc EXCEPT ![s] = PyNone]
    /\ pc' = [pc EXCEPT ![s] = "after_main"]
    /\ UNCHANGED <<procvars, fnvars, runs, ocr_engine, groq_api_key,
                   gemini_api_key, input_path, ocr_result, calls,
                   client_key, raised, crashed, saved, download,
                   read_after>>

\* lines 296 / 311 with 96-178 / 201-225: the transcription function runs.
\* An error escaping it aborts the script run.
OcrProcess(s) ==
    /\ pc[s] = "main"
    /\ KeyPresent(SelectedKey(s))
    /\ \E fault \in Faults \cup {"none"}, content \in Contents :
         LET backend == SelectedBackend(ocr_engine[s])
             key     == SelectedKey(s)
             loaded  == fault # "load"
             G       == load_groq_client(groq_cache, key)
             M       == load_gemini(gemini_cache, genai_config, key)
             out     == TryBackend(fault, content)
         IN  /\ (fault # "none") => (content = PyNone)
             /\ calls' = [calls EXCEPT ![s] = Append(@, backend)]
             /\ raised' = [raised EXCEPT ![s] = (fault # "none")]
             /\ IF backend = "groq"
                THEN /\ groq_cache' = IF loaded THEN G.cache ELSE groq_cache
                     /\ client_key' = [client_key EXCEPT ![s] =
                            IF loaded THEN G.client.api_key ELSE PyNone]
                     /\ UNCHANGED <<gemini_cache, genai_config>>
                ELSE /\ gemini_cache' =
                            IF loaded THEN M.cache ELSE gemini_cache
                     /\ genai_config' =
                            IF loaded THEN M.config ELSE genai_config
                     /\ client_key' = [client_key EXCEPT ![s] =
                            IF loaded THEN M.config ELSE PyNone]
                     /\ UNCHANGED groq_cache
             /\ IF out.raises
                THEN /\ crashed' = [crashed EXCEPT ![s] = TRUE]
                     /\ pc' = [pc EXCEPT ![s] = "done"]
                     /\ UNCHANGED <<ocr_result, ui>>
                ELSE /\ ocr_result' = [ocr_result EXCEPT ![s] = out.value]
                     /\ ui' = [ui EXCEPT ![s] =
                            IF out.reported THEN @ \cup {"error_backend"}
                            ELSE @]
                     /\ pc' = [pc EXCEPT ![s] = "ocr_done"]
                     /\ UNCHANGED crashed
    /\ UNCHANGED <<secrets, files, tmpfiles, last_save, fnvars, runs,
                   ocr_engine, groq_api_key, gemini_api_key, input_path,
                   doc, saved, download, read_after>>

\* lines 298-300, 313-315: text returned -> show it, build the document
BuildDoc(s) ==
    /\ pc[s] = "ocr_done"
    /\ Truthy(ocr_result[s])
    /\ \E embed \in EmbedOutcomes :
         doc' = [doc EXCEPT ![s] =
                   create_structured_docx(ocr_result[s], input_path[s], embed,
                                          SelectedBackend(ocr_engine[s]))]
    /\ ui' = [ui EXCEPT ![s] = @ \cup {"markdown"}]
    /\ pc' = [pc EXCEPT ![s] = "after_main"]
    /\ UNCHANGED <<procvars, fnvars, runs, ocr_engine, groq_api_key,
                   gemini_api_key, input_path, ocr_result, calls,
                   client_key, raised, crashed, saved, download,
                   read_after>>

\* lines 301-303, 316-318: None or "" -> "Failed to process", doc = None
OcrFailed(s) ==
    /\ pc[s] = "ocr_done"
    /\ ~Truthy(ocr_result[s])
    /\ doc' = [doc EXCEPT ![s] = PyNone]
    /\ ui' = [ui EXCEPT ![s] = @ \cup {"error_failed"}]
    /\ pc' = [pc EXCEPT ![s] = "after_main"]
    /\ UNCHANGED <<procvars, fnvars, runs, ocr_engine, groq_api_key,
                   gemini_api_key, input_path, ocr_result, calls,
                   client_key, raised, crashed, saved, download,
                   read_after>>

\* line 324 false: no document, the script run ends
SkipDownload(s) ==
    /\ pc[s] = "after_main"
    /\ IsNone(doc[s])
    /\ pc' = [pc EXCEPT ![s] = "done"]
    /\ UNCHANGED <<procvars, fnvars, runs, ocr_engine, groq_api_key,
                   gemini_api_key, input_path, ocr_result, doc, ui, calls,
                   client_key, raised, crashed, saved, download,
                   read_after>>

\* lines 324-326: doc.save(doc_path)
Save(s) ==
    /\ pc[s] = "after_main"
    /\ ~IsNone(doc[s])
    /\ files' = Store(files, doc_path(s), doc[s])
    /\ last_save' = doc[s]
    /\ saved' = [saved EXCEPT ![s] = TRUE]
    /\ pc' = [pc EXCEPT ![s] = "saved"]
    /\ UNCHANGED <<secrets, groq_cache, gemini_cache, genai_config, tmpfiles,
                   fnvars, runs, ocr_engine, groq_api_key, gemini_api_key,
                   input_path, ocr_result, doc, ui, calls, client_key,
                   raised, crashed, download, read_after>>

\* lines 328-335: reopen doc_path, hand its content to the download button
Download(s) ==
    /\ pc[s] = "saved"
    /\ download' = [download EXCEPT ![s] = files[doc_path(s)]]
    /\ read_after' = [read_after EXCEPT ![s] = last_save]
    /\ ui' = [ui EXCEPT ![s] = @ \cup {"download_button"}]
    /\ pc' = [pc EXCEPT ![s] = "offered"]
    /\ UNCHANGED <<procvars, fnvars, runs, ocr_engine, groq_api_key,
                   gemini_api_key, input_path, ocr_result, doc, calls,
                   client_key, raised, crashed, saved>>

\* lines 337-341: os.remove(input_path), inside the download branch
Cleanup(s) ==
    /\ pc[s] = "offered"
    /\ tmpfiles' = tmpfiles \ {input_path[s]}
    /\ pc' = [pc EXCEPT ![s] = "done"]
    /\ UNCHANGED <<secrets, groq_cache, gemini_cache, genai_config, files,
                   last_save, fnvars, runs, ocr_engine, groq_api_key,
                   gemini_api_key, input_path, ocr_result, doc, ui, calls,
                   client_key, raised, crashed, saved, download,
                   read_after>>

Next ==
    \E s \in Sessions :
        \/ Start(s)
        \/ NoUpload(s)
        \/ Intake(s)
        \/ MissingKey(s)
        \/ OcrProcess(s)
        \/ BuildDoc(s)
        \/ OcrFailed(s)
        \/ SkipDownload(s)
        \/ Save(s)
        \/ Download(s)
        \/ Cleanup(s)

Spec == Init /\ [][Next]_vars

\* ------------------------------------------------------------------------
\* create_structured_docx on its own, over bounded inputs
\* ------------------------------------------------------------------------
EngineTypes == {"groq", "gemini", "other"}

ImagePath == <<"img", 0>>

DocxInit ==
    /\ secrets = NoSecrets
    /\ ProcInit
    /\ SessInit
    /\ call \in [ocr_result  : {PyStr(t) : t \in Texts(MaxFrags)} \cup {PyNone},
                 image_path  : {ImagePath},
                 embed       : EmbedOutcomes,
                 engine_type : EngineTypes]
    /\ ret = PyNone

CallCreate ==
    /\ IsNone(ret)
    /\ ret' = create_structured_docx(call.ocr_result, call.image_path,
                                     call.embed, call.engine_type)
    /\ UNCHANGED <<procvars, sessvars, call>>

DocxNext == CallCreate

SpecDocx == DocxInit /\ [][DocxNext]_vars

\* ------------------------------------------------------------------------
\* Properties of create_structured_docx (checked under SpecDocx)
\* ------------------------------------------------------------------------
Returned == ~IsNone(ret)

InputText == IF IsNone(call.ocr_result) THEN <<>> ELSE call.ocr_result.val

\* the lines of the text, split on newline, that are non-empty once trimmed
NonBlankLines(text) ==
    LET trimmed == [i \in 1..Len(split(text, "\n")) |->
                        strip(split(text, "\n")[i])]
    IN  SelectSeq(trimmed, LAMBDA l : l # <<>>)

\* what follows the mapped blocks: three closing elements, then the picture
\* or the placeholder (after the paragraph a failed add_picture may leave)
TailLen(embed) == IF embed = "raise_after_paragraph" THEN 5 ELSE 4

\* the mapped content blocks of a returned document: after the three
\* leading elements, before the closing ones
MappedBlocks(d, embed) == SubSeq(d, 4, Len(d) - TailLen(embed))

\* C1: for engine_type "groq" or "gemini" the number of mapped blocks equals
\* the number of lines that are non-empty after trimming, and the i-th block
\* is the one made from the i-th such line (nothing dropped, duplicated or
\* reordered).
C1_BlocksFollowLines ==
    (Returned /\ call.engine_type \in {"groq", "gemini"}) =>
        LET nb == NonBlankLines(InputText)
            b  == MappedBlocks(ret.val, call.embed)
        IN  /\ Len(b) = Len(nb)
            /\ \A i \in 1..Len(nb) : b[i] = MapLine(nb[i])

\* C1 witness: "a", blank line, "a" has been mapped to two blocks
C1_Witness ==
    /\ Returned
    /\ call.engine_type = "groq"
    /\ call.ocr_result = PyStr(<<"a", "\n", "\n", "a">>)
    /\ Len(MappedBlocks(ret.val, call.embed)) = 2

\* prefix tests written out character by character
HasPrefix(l, p) == Len(l) >= Len(p) /\ \A i \in 1..Len(p) : l[i] = p[i]

Drop(l, n) == [i \in 1..(Len(l) - n) |-> l[i + n]]

IsH3(l) == HasPrefix(l, <<"#", "#", "#", " ">>)

IsH2(l) == ~IsH3(l) /\ HasPrefix(l, <<"#", "#", " ">>)

IsH1(l) == ~IsH3(l) /\ ~IsH2(l) /\ HasPrefix(l, <<"#", " ">>)

IsBullet(l) ==
    /\ ~IsH3(l) /\ ~IsH2(l) /\ ~IsH1(l)
    /\ (HasPrefix(l, <<"-", " ">>) \/ HasPrefix(l, <<"*", " ">>))

IsDiagram(l) ==
    /\ ~IsH3(l) /\ ~IsH2(l) /\ ~IsH1(l) /\ ~IsBullet(l)
    /\ HasPrefix(l, <<"[", "D", "I", "A", "G", "R", "A", "M">>)

IsPlain(l) ==
    ~IsH3(l) /\ ~IsH2(l) /\ ~IsH1(l) /\ ~IsBullet(l) /\ ~IsDiagram(l)

HeadingOf(b, level, text) ==
    b.kind = "heading" /\ b.level = level /\ b.text = text

ParagraphOf(b, style, text) ==
    b.kind = "paragraph" /\ b.style = style /\ b.text = text

\* C2: every non-blank trimmed line becomes exactly one block, chosen by
\* first match over "### ", "## ", "# ", "- " or "* ", "[DIAGRAM", else plain
\* paragraph; headings and bullets carry the line without the prefix,
\* diagram and plain paragraphs the trimmed line itself.
C2_PrefixClassification ==
    (Returned /\ call.engine_type \in {"groq", "gemini"}) =>
        LET nb == NonBlankLines(InputText)
            b  == MappedBlocks(ret.val, call.embed)
        IN  /\ Len(b) = Len(nb)
            /\ \A i \in 1..Len(nb) :
                 LET l == nb[i] IN
                 /\ IsH3(l) => HeadingOf(b[i], 3, Drop(l, 4))
                 /\ IsH2(l) => HeadingOf(b[i], 2, Drop(l, 3))
                 /\ IsH1(l) => HeadingOf(b[i], 1, Drop(l, 2))
                 /\ IsBullet(l) => ParagraphOf(b[i], "List Bullet", Drop(l, 2))
                 /\ IsDiagram(l) => ParagraphOf(b[i], "Intense Quote", l)
                 /\ IsPlain(l) => ParagraphOf(b[i], "Normal", l)

\* C2 witness: the line "### a" has become a level-3 heading "a"
C2_Witness ==
    /\ Returned
    /\ call.engine_type = "gemini"
    /\ call.ocr_result = PyStr(<<"#", "#", "#", " ", "a">>)
    /\ MappedBlocks(ret.val, call.embed)
         = <<[kind |-> "heading", level |-> 3, text |-> <<"a">>,
              style |-> "Heading", alignment |-> "LEFT"]>>

\* the document the same call returns when the image embeds
WithImage ==
    create_structured_docx(call.ocr_result, call.image_path, "ok",
                           call.engine_type).val

TitleEl ==
    [kind |-> "heading", level |-> 1,
     text |-> <<"Chemistry Notes - OCR Extraction">>,
     style |-> "Heading", alignment |-> "CENTER"]

MetaEl(name) ==
    [kind |-> "paragraph", level |-> 0, text |-> <<"OCR Engine: ", name>>,
     style |-> "Normal", alignment |-> "LEFT"]

SeparatorEl ==
    [kind |-> "paragraph", level |-> 0, text |-> [i \in 1..50 |-> "_"],
     style |-> "Normal", alignment |-> "LEFT"]

EmptyParagraphEl ==
    [kind |-> "paragraph", level |-> 0, text |-> <<>>,
     style |-> "Normal", alignment |-> "LEFT"]

ReferenceHeadingEl ==
    [kind |-> "heading", level |-> 2,
     text |-> <<"Original Image (Reference)">>,
     style |-> "Heading", alignment |-> "LEFT"]

PictureEl(path) ==
    [kind |-> "picture", level |-> 0, text |-> <<path>>,
     style |-> "width=Inches(6)", alignment |-> "LEFT"]

PlaceholderEl ==
    [kind |-> "paragraph", level |-> 0,
     text |-> <<"[Could not embed original image]">>,
     style |-> "Normal", alignment |-> "LEFT"]

EngineName ==
    IF call.engine_type = "groq" THEN "GROQ"
    ELSE IF call.engine_type = "gemini" THEN "GEMINI" ELSE "OTHER"

\* the expected mapped blocks: one per non-blank trimmed line
ExpectedBlocks ==
    IF call.engine_type \in {"groq", "gemini"}
    THEN [i \in 1..Len(NonBlankLines(InputText)) |->
              MapLine(NonBlankLines(InputText)[i])]
    ELSE <<>>

\* C7 as stated: title, engine line, separator, mapped blocks, second
\* separator, secondary heading, embedded image, and nothing else (stated
\* for the calls in which the image embeds).
C7_Original ==
    (Returned /\ call.embed = "ok" /\ ~IsNone(call.ocr_result)
              /\ call.engine_type \in {"groq", "gemini"}) =>
        ret.val = <<TitleEl, MetaEl(EngineName), SeparatorEl>>
                  \o ExpectedBlocks
                  \o <<SeparatorEl, ReferenceHeadingEl,
                       PictureEl(call.image_path)>>

\* C7 amended: title, engine line, separator, mapped blocks (none unless the
\* engine type is groq or gemini), an empty paragraph, second separator,
\* secondary heading, then the embedded image, or when embedding fails the
\* placeholder paragraph, after the empty paragraph the failed embedding
\* may leave; with empty text the mapped part is empty.
C7_Amended ==
    Returned =>
        /\ ret.val = <<TitleEl, MetaEl(EngineName), SeparatorEl>>
                     \o ExpectedBlocks
                     \o <<EmptyParagraphEl, SeparatorEl, ReferenceHeadingEl>>
                     \o ( CASE call.embed = "ok" ->
                                 <<PictureEl(call.image_path)>>
                            [] call.embed = "raise" -> <<PlaceholderEl>>
                            [] OTHER -> <<EmptyParagraphEl, PlaceholderEl>> )
        /\ InputText = <<>> => ExpectedBlocks = <<>>

\* C7 witness: the document for empty text with the image embedded
C7_Witness ==
    /\ Returned
    /\ call.ocr_result = Empty
    /\ call.embed = "ok"
    /\ call.engine_type = "groq"
    /\ Len(ret.val) = 7

\* ------------------------------------------------------------------------
\* Properties of the script runs (checked under Spec)
\* ------------------------------------------------------------------------
Uploaded(s) == input_path[s] # NoPath

\* the API key of the backend the user selected
KeyOfSelected(s) ==
    IF ocr_engine[s] = GROQ THEN groq_api_key[s] ELSE gemini_api_key[s]

NameOfSelected(s) == IF ocr_engine[s] = GROQ THEN "groq" ELSE "gemini"

KeyMissing(s) == KeyOfSelected(s) = PyNone \/ KeyOfSelected(s) = Empty

Offered(s) == "download_button" \in ui[s] /\ download[s] # PyNone

\* C3: when a step of the backend call raises, the transcription function
\* does not raise to its caller but reports the error and returns None, and
\* the request builds, saves and offers no document.
C3_BackendErrorCaught ==
    \A s \in Sessions :
        raised[s] =>
            /\ ~crashed[s]
            /\ ocr_result[s] = PyNone
            /\ "error_backend" \in ui[s]
            /\ doc[s] = PyNone
            /\ ~saved[s]
            /\ ~Offered(s)
            /\ pc[s] \in {"ocr_done", "after_main", "done"}

\* C3 witness: a request whose backend call raised has run to its end
C3_Witness ==
    \E s \in Sessions :
        /\ raised[s]
        /\ pc[s] = "done"
        /\ calls[s] # <<>>
        /\ "error_failed" \in ui[s]

\* C4: once the response of a request with an uploaded image has been
\* produced, its temporary file is deleted, on every path.
C4_TempFileDeleted ==
    \A s \in Sessions :
        (pc[s] = "done" /\ Uploaded(s)) => input_path[s] \notin tmpfiles

\* C5: when the key of the selected backend is missing, the request calls no
\* backend, shows the warning, sets no document, writes no output file and
\* offers no download.
C5_MissingKeyBlocks ==
    \A s \in Sessions :
        (Uploaded(s) /\ KeyMissing(s)) =>
            /\ calls[s] = <<>>
            /\ client_key[s] = PyNone
            /\ doc[s] = PyNone
            /\ ~saved[s]
            /\ ~Offered(s)
            /\ pc[s] \in {"main", "after_main", "done"}
            /\ pc[s] # "main" => "warning_key" \in ui[s]

\* C5 witness: a request with an upload and an empty key has finished
C5_Witness ==
    \E s \in Sessions :
        /\ Uploaded(s)
        /\ KeyOfSelected(s) = Empty
        /\ pc[s] = "done"
        /\ "warning_key" \in ui[s]

\* C8: a request made with key K uses a client constructed and configured
\* with K, for both backends.
C8_ClientHasRequestKey ==
    \A s \in Sessions :
        client_key[s] # PyNone => client_key[s] = KeyOfSelected(s)

\* C9: every successful request saves to the one fixed path and reads that
\* path back for the download, so the data it offers is whatever document
\* was saved last, by any request, when it read.
C9_DownloadIsLastSaved ==
    /\ \A s \in Sessions :
           pc[s] \in {"offered", "done"} /\ saved[s] =>
               /\ download[s] = read_after[s]
               /\ download[s] # PyNone
    /\ last_save # PyNone =>
           /\ DOMAIN files = {"chemistry_notes_ocr.docx"}
           /\ files["chemistry_notes_ocr.docx"] = last_save

\* C9 witness: a request has been handed the document of the other request
\* (save by s, save by t, read by s)
C9_Witness ==
    \E s \in Sessions, t \in Sessions :
        /\ s # t
        /\ pc[s] \in {"offered", "done"}
        /\ saved[s] /\ saved[t]
        /\ download[s] = doc[t]
        /\ download[s] # doc[s]

\* C10: a request with an upload builds, saves and offers a document exactly
\* when the selected key is present and the backend returned non-empty text;
\* an empty string gives the failure message and no document; only the
\* selected backend is called, at most once.
C10_DocumentIffText ==
    \A s \in Sessions :
        /\ Len(calls[s]) <= 1
        /\ \A i \in 1..Len(calls[s]) : calls[s][i] = NameOfSelected(s)
        /\ (pc[s] = "done" /\ Uploaded(s)) =>
               LET gotText == /\ ~KeyMissing(s)
                              /\ calls[s] # <<>>
                              /\ ~raised[s]
                              /\ ocr_result[s] # PyNone
                              /\ ocr_result[s] # Empty
               IN  /\ (doc[s] # PyNone) = gotText
                   /\ saved[s] = gotText
                   /\ Offered(s) = gotText
                   /\ (~KeyMissing(s) /\ ~gotText) =>
                          "error_failed" \in ui[s]

\* C10 witness: a request whose backend returned the empty string has
\* finished
C10_Witness ==
    \E s \in Sessions :
        /\ pc[s] = "done"
        /\ Uploaded(s)
        /\ ~raised[s]
        /\ calls[s] # <<>>
        /\ ocr_result[s] = Empty

====
